---- MODULE Spec2Model ----
(***************************************************************************)
(* termineter get_data_mqtt / get_data modules: the poll cycle that reads  *)
(* C12.19 tables 23 and 28 from the meter, decodes them and publishes the  *)
(* metrics, with their Home Assistant discovery configuration, over MQTT.  *)
(***************************************************************************)
EXTENDS Integers, Sequences, FiniteSets, TLC

\* ------------------------------------------------------------------ bounds
\* poll cycles (calls of run) explored
MaxCycles == 2
\* broker publish calls that may fail (error code or exception) in one behaviour
MaxPubFailures == 1
\* longest buffer handed to parse_input_buffer on its own
MaxBufLen == 44
\* longest key sequence handed to publish_initial_configurations on its own
MaxKeys == 3

\* Calls of get_data.Module.run explored.
MaxRuns == 2

\* ------------------------------------------------------- program constants
\* minimum length the buffer is padded to (len(byte) < 36)
PadLen == 36
\* divisor of the fixed-point quantities (int32_values[k] / 1000)
Scale == 1000

\* -------------------------------------------------------------- byte level
\* b"\x00" * n
ZeroBytes(n) == [i \in 1..n |-> 0]

\* The meter's wire encoding of one signed 32-bit integer, little-endian
\* two's complement (struct.pack("<i", v)).
PackInt32(v) ==
  LET v1 == v \div 256
      v2 == v1 \div 256
      v3 == v2 \div 256
  IN  <<v % 256, v1 % 256, v2 % 256, v3 % 256>>

\* The wire encoding of a sequence of signed 32-bit integers.
Pack(ints) == [i \in 1..(4 * Len(ints)) |-> PackInt32(ints[((i - 1) \div 4) + 1])[((i - 1) % 4) + 1]]

\* The first n bytes of b (all of b when it is shorter).
Take(b, n) == SubSeq(b, 1, IF n < Len(b) THEN n ELSE Len(b))

\* One "<i" field of struct.unpack: the k-th (0-based) little-endian signed
\* 32-bit integer of byte.
Int32LE(byte, k) ==
  LET o  == 4 * k
      hi == IF byte[o + 4] >= 128 THEN byte[o + 4] - 256 ELSE byte[o + 4]
  IN  byte[o + 1] + 256 * byte[o + 2] + 65536 * byte[o + 3] + 16777216 * hi

\* struct.unpack("<" + "i" * n, byte): struct.error unless byte holds exactly
\* 4 * n bytes; values[k + 1] is Python's int32_values[k].
struct_unpack(n, byte) ==
  IF Len(byte) # 4 * n
  THEN [exc |-> "struct.error", values |-> <<>>]
  ELSE [exc |-> "none", values |-> [k \in 1..n |-> Int32LE(byte, k - 1)]]

\* ------------------------------------------------------------------ values
\* A Python int.
IntValue(v) == [type |-> "int", whole |-> v, milli |-> 0]

\* Python 3 true division v / 1000: the float whole + milli / 1000.
TrueDiv(v) == [type |-> "float", whole |-> v \div Scale, milli |-> v % Scale]

\* ----------------------------------------------------------------- decoder
\* The dict literal of table 23: <<key, index into int32_values, divided>>.
layout23 ==
  << <<"Fwd_kWh", 0, TRUE>>, <<"Rev_kWh", 1, TRUE>> >>

\* layout28 with the indices "cleaned up" to be contiguous (2..7 instead of
\* 4..9): what the decoder must not do.
layout28_contiguous ==
  << <<"fwd_Now", 0, FALSE>>, <<"rev_Now", 1, FALSE>>,
     <<"L1_A", 2, TRUE>>, <<"L2_A", 3, TRUE>>, <<"L3_A", 4, TRUE>>,
     <<"L1_V", 5, TRUE>>, <<"L2_V", 6, TRUE>>, <<"L3_V", 7, TRUE>> >>

\* The dict literal of table 28.
layout28 ==
  << <<"fwd_Now", 0, FALSE>>, <<"rev_Now", 1, FALSE>>,
     <<"L1_A", 4, TRUE>>, <<"L2_A", 5, TRUE>>, <<"L3_A", 6, TRUE>>,
     <<"L1_V", 7, TRUE>>, <<"L2_V", 8, TRUE>>, <<"L3_V", 9, TRUE>> >>

\* Evaluation of a dict literal over int32_values, entry by entry: the first
\* subscript outside the tuple raises IndexError; reads are the subscripts
\* evaluated.  data keeps the dict's insertion order.
build_dict(values, layout) ==
  LET bad   == {i \in 1..Len(layout) : layout[i][2] >= Len(values)}
      first == IF bad = {} THEN Len(layout) + 1
               ELSE CHOOSE i \in bad : \A j \in bad : i <= j
      reads == {layout[i][2] : i \in {j \in 1..Len(layout) : j <= first}}
  IN  IF bad # {}
      THEN [exc |-> "IndexError", data |-> <<>>, reads |-> reads]
      ELSE [exc |-> "none",
            data |-> [i \in 1..Len(layout) |->
                        <<layout[i][1],
                          IF layout[i][3] THEN TrueDiv(values[layout[i][2] + 1])
                          ELSE IntValue(values[layout[i][2] + 1])>>],
            reads |-> reads]

\* The try-body of parse_input_buffer.
parse_body(byte, table_id) ==
  LET padded == IF Len(byte) < PadLen
                THEN byte \o ZeroBytes(PadLen - Len(byte))
                ELSE byte
      u      == struct_unpack(Len(padded) \div 4, padded)
  IN  IF u.exc # "none" THEN [exc |-> u.exc, data |-> <<>>, reads |-> {}]
      ELSE IF table_id = 23 THEN build_dict(u.values, layout23)
      ELSE IF table_id = 28 THEN build_dict(u.values, layout28)
      ELSE [exc |-> "UnboundLocalError", data |-> <<>>, reads |-> {}]

\* parse_input_buffer: the try-body under its one handler, except ValueError,
\* which returns {}; every other exception propagates to the caller.
parse_input_buffer(byte, table_id) ==
  LET r == parse_body(byte, table_id)
  IN  IF r.exc = "ValueError"
      THEN [exc |-> "none", data |-> <<>>, reads |-> r.reads]
      ELSE r

\* ----------------------------------------------------------------- catalog
\* sensor_types with its last key left out.
SensorTypes_without_L3_V ==
  <<"Fwd_kWh", "Rev_kWh", "fwd_Now", "rev_Now", "L1_A", "L1_V", "L2_A", "L2_V",
    "L3_A">>

\* The ten keys assigned to self.sensor_types, in order.
SensorTypes ==
  <<"Fwd_kWh", "Rev_kWh", "fwd_Now", "rev_Now", "L1_A", "L1_V", "L2_A", "L2_V",
    "L3_A", "L3_V">>

\* config_details: key -> <<icon, name, unit, state_class, device_class>>;
\* the string "None" stands for Python's None.
config_details ==
  ("Fwd_kWh" :> <<"mdi:transmission-tower-import", "Energy Import", "kWh", "total_increasing", "energy">>)
  @@ ("Rev_kWh" :> <<"mdi:transmission-tower-export", "Energy Export", "kWh", "total_increasing", "energy">>)
  @@ ("fwd_Now" :> <<"mdi:meter-electric-outline", "Power Import", "W", "measurement", "power">>)
  @@ ("rev_Now" :> <<"mdi:meter-electric", "Power Export", "W", "measurement", "power">>)
  @@ ("L1_A" :> <<"mdi:alpha-a-circle", "Phase 1 Amperage", "A", "measurement", "None">>)
  @@ ("L1_V" :> <<"mdi:alpha-v-circle", "Phase 1 Voltage", "V", "measurement", "voltage">>)
  @@ ("L2_A" :> <<"mdi:alpha-a-circle", "Phase 2 Amperage", "A", "measurement", "None">>)
  @@ ("L2_V" :> <<"mdi:alpha-v-circle", "Phase 2 Voltage", "V", "measurement", "voltage">>)
  @@ ("L3_A" :> <<"mdi:alpha-a-circle", "Phase 3 Amperage", "A", "measurement", "None">>)
  @@ ("L3_V" :> <<"mdi:alpha-v-circle", "Phase 3 Voltage", "V", "measurement", "voltage">>)

\* ------------------------------------------------------------------ topics
\* A topic is its sequence of levels (the parts between "/"); a level is the
\* sequence of the strings the f-string joins.

\* f"homeassistant/sensor/{meter_name}_{sensor_type}/config"
config_topic(c, sensor_type) ==
  << <<"homeassistant">>, <<"sensor">>, <<c.meter_name, "_", sensor_type>>, <<"config">> >>

\* The data topic without the meter name: f"{mqtt_topic_prefix}/{key}".
data_topic_without_meter_name(c, key) ==
  c.mqtt_topic_prefix \o << <<key>> >>

\* f"{mqtt_topic_prefix}/{meter_name}/{key}" of publish_data
data_topic(c, key) ==
  c.mqtt_topic_prefix \o << <<c.meter_name>>, <<key>> >>

\* get_or_create_config: the json.dumps of the discovery dict, fields in
\* insertion order, or None when the key has no entry in config_details.
get_or_create_config(c, key) ==
  IF key \in DOMAIN config_details
  THEN LET d    == config_details[key]
           dev  == << <<"identifiers", <<c.meter_id>> >>,
                      <<"manufacturer", "Networked Electricity Services">>,
                      <<"model", "NES-Meter">>,
                      <<"name", "Electricity Meter">> >>
           body == << <<"device", dev>>,
                      <<"name", d[2]>>,
                      <<"unit_of_measurement", d[3]>>,
                      <<"state_topic", c.mqtt_topic_prefix \o << <<c.meter_name>>, <<key>> >> >>,
                      <<"unique_id", <<c.meter_id, "_", key>> >>,
                      <<"state_class", d[4]>>,
                      <<"icon", d[1]>>,
                      <<"platform", "mqtt">> >>
       IN  [none |-> FALSE,
            json |-> IF d[5] # "None" THEN Append(body, <<"device_class", d[5]>>) ELSE body]
  ELSE [none |-> TRUE, json |-> <<>>]

\* -------------------------------------------------------------- environment
\* mqtt_config: the configurations explored.
Configs ==
  { [meter_id |-> "nes-1", meter_name |-> "meter", mqtt_topic_prefix |-> << <<"home">> >>],
    [meter_id |-> "nes-2", meter_name |-> "m2",
     mqtt_topic_prefix |-> << <<"homeassistant">>, <<"sensor">> >>] }

\* run calling read_and_process_data for table 28 first.
tables_28_first == << <<28, 40>>, <<23, 8>> >>

\* The two calls of run: <<table_id, octet>>.
tables == << <<23, 8>>, <<28, 40>> >>

\* Register contents the meter encodes into its replies.
Example23 == <<1000, 2000>>

Example28 == <<100, -50, 0, 0, 5000, 6000, 7000, 120000, 121000, 122000>>

\* Replies get_table_part may return: the table source decides their length.
SourceBuffers ==
  { <<>>, Pack(Example23), Pack(Example28),
    Take(Pack(Example28), 36), Take(Pack(Example28), 37) }

\* ------------------------------------------------------------------- state
VARIABLES
  cfg,           \* mqtt_config values: meter_id, meter_name, mqtt_topic_prefix
  pc,            \* where the module is: init, config, idle, read, parse, publish, crashed
  client,        \* self.client: exists, connected, loop (background thread running)
  sensor_types,  \* the key sequence publish_initial_configurations iterates
  si,            \* its position in sensor_types
  cycle,         \* calls of run so far
  ti,            \* which call of read_and_process_data run is in (index into tables)
  data,          \* read_and_process_data's data: the bytes read
  parsed_data,   \* its parsed_data: the decoded mapping, in insertion order
  pi,            \* publish_data's position in the mapping
  pubs,          \* client.publish calls: those of construction, then the current cycle's
  reads,         \* conn.get_table_part calls of the current cycle
  err,           \* the exception that left run or __init__ ("none" when none did)
  nfail,         \* failing publish calls so far
  dec,           \* a direct call of parse_input_buffer: its arguments and result
  gd             \* get_data.Module.run: its position, its local data, the files written

vars ==
  <<cfg, pc, client, sensor_types, si, cycle, ti, data, parsed_data, pi, pubs,
    reads, err, nfail, dec, gd>>

NoClient == [exists |-> FALSE, connected |-> FALSE, loop |-> FALSE]

NoDec == [table_id |-> 0, ints |-> <<>>, byte |-> <<>>, called |-> FALSE,
          result |-> [exc |-> "none", data |-> <<>>, reads |-> {}]]

\* get_data.Module before any call of its run: data is a local of run, unbound
\* until an assignment; files maps a path to what was last written to it.
NoGetData == [pc |-> "none", runs |-> 0, ti |-> 0, bound |-> FALSE, data |-> <<>>,
              reads |-> <<>>, writes |-> <<>>, err |-> "none",
              files |-> [f \in {"/var/tmp/BT23", "/var/tmp/BT28"} |-> <<"absent">>]]

Init ==
  /\ cfg \in Configs
  /\ pc = "init"
  /\ client = NoClient
  /\ sensor_types = <<>>
  /\ si = 0
  /\ cycle = 0
  /\ ti = 0
  /\ data = <<>>
  /\ parsed_data = <<>>
  /\ pi = 0
  /\ pubs = <<>>
  /\ reads = <<>>
  /\ err = "none"
  /\ nfail = 0
  /\ gd = NoGetData
  /\ dec = NoDec

\* ------------------------------------------------------------------ broker
\* What client.publish may do: hand the message over ("ok"), return an error
\* code ("rc_error": not connected, queue full), or raise ("raise").
PublishOutcomes ==
  {IF client.connected THEN "ok" ELSE "rc_error"}
    \cup (IF nfail < MaxPubFailures
          THEN (IF client.connected THEN {"rc_error", "raise"} ELSE {"raise"})
          ELSE {})

\* publish dropping its retain argument (client.publish(topic, payload, qos)).
publish_ignores_retain(topic, payload, qos, retain, outcome, phase) ==
  [topic |-> topic, payload |-> payload, qos |-> qos, retain |-> FALSE,
   outcome |-> outcome, phase |-> phase]

\* publish(topic, payload, qos=0, retain=False): the client.publish call.
publish(topic, payload, qos, retain, outcome, phase) ==
  [topic |-> topic, payload |-> payload, qos |-> qos, retain |-> retain,
   outcome |-> outcome, phase |-> phase]

\* The qos default of publish.
DefaultQos == 0

Failed(outcome) == outcome # "ok" /\ ~(outcome = "rc_error" /\ ~client.connected)

\* ------------------------------------------------------------ construction
\* setup_mqtt: connect and loop_start, or the handler of a failed connect.
setup_mqtt(connected) == [exists |-> TRUE, connected |-> connected, loop |-> connected]

\* __init__ returning without the call of publish_initial_configurations.
Module_init_without_discovery ==
  /\ pc = "init"
  /\ \E connected \in BOOLEAN : client' = setup_mqtt(connected)
  /\ sensor_types' = SensorTypes
  /\ si' = Len(SensorTypes) + 1
  /\ pc' = "idle"
  /\ UNCHANGED <<gd, cfg, cycle, ti, data, parsed_data, pi, pubs, reads, err, nfail, dec>>

\* __init__ letting the exception of connect leave setup_mqtt.
Module_init_connect_fatal ==
  /\ pc = "init"
  /\ \E connected \in BOOLEAN :
       /\ client' = setup_mqtt(connected)
       /\ IF connected
          THEN pc' = "config" /\ err' = err
          ELSE pc' = "crashed" /\ err' = "ConnectError"
  /\ sensor_types' = SensorTypes
  /\ si' = 1
  /\ UNCHANGED <<gd, cfg, cycle, ti, data, parsed_data, pi, pubs, reads, nfail, dec>>

\* __init__ up to the call of publish_initial_configurations.
Module_init ==
  /\ pc = "init"
  /\ \E connected \in BOOLEAN : client' = setup_mqtt(connected)
  /\ sensor_types' = SensorTypes
  /\ si' = 1
  /\ pc' = "config"
  /\ UNCHANGED <<gd, cfg, cycle, ti, data, parsed_data, pi, pubs, reads, err, nfail, dec>>

\* publish_initial_configurations returning at the first key without entry.
publish_initial_configurations_stop_at_miss ==
  /\ pc = "config"
  /\ si <= Len(sensor_types)
  /\ LET sensor_type    == sensor_types[si]
         config_payload == get_or_create_config(cfg, sensor_type)
     IN  IF ~config_payload.none
         THEN \E o \in PublishOutcomes :
                /\ pubs' = Append(pubs, publish(config_topic(cfg, sensor_type),
                                                config_payload, DefaultQos, TRUE, o, "config"))
                /\ nfail' = IF Failed(o) THEN nfail + 1 ELSE nfail
                /\ IF o = "raise"
                   THEN pc' = "crashed" /\ err' = "PublishError" /\ si' = si
                   ELSE pc' = pc /\ err' = err /\ si' = si + 1
         ELSE /\ pc' = "idle"
              /\ UNCHANGED <<pubs, nfail, si, err>>
  /\ UNCHANGED <<gd, cfg, client, sensor_types, cycle, ti, data, parsed_data, pi, reads, dec>>

\* One iteration of publish_initial_configurations' loop.
publish_initial_configurations ==
  /\ pc = "config"
  /\ si <= Len(sensor_types)
  /\ LET sensor_type    == sensor_types[si]
         config_payload == get_or_create_config(cfg, sensor_type)
     IN  IF ~config_payload.none
         THEN \E o \in PublishOutcomes :
                /\ pubs' = Append(pubs, publish(config_topic(cfg, sensor_type),
                                                config_payload, DefaultQos, TRUE, o, "config"))
                /\ nfail' = IF Failed(o) THEN nfail + 1 ELSE nfail
                /\ IF o = "raise"
                   THEN pc' = "crashed" /\ err' = "PublishError" /\ si' = si
                   ELSE pc' = pc /\ err' = err /\ si' = si + 1
         ELSE /\ si' = si + 1
              /\ UNCHANGED <<pubs, nfail, pc, err>>
  /\ UNCHANGED <<gd, cfg, client, sensor_types, cycle, ti, data, parsed_data, pi, reads, dec>>

\* The loop is exhausted: publish_initial_configurations and __init__ return.
publish_initial_configurations_return ==
  /\ pc = "config"
  /\ si > Len(sensor_types)
  /\ pc' = "idle"
  /\ UNCHANGED <<gd, cfg, client, sensor_types, si, cycle, ti, data, parsed_data, pi,
                 pubs, reads, err, nfail, dec>>

\* -------------------------------------------------------------- poll cycle
\* read_and_process_data returns: run makes its next call, or returns.
Advance ==
  IF ti < Len(tables)
  THEN pc' = "read" /\ ti' = ti + 1
  ELSE pc' = "idle" /\ ti' = 0

\* run is called: its first call of read_and_process_data begins.
run ==
  /\ pc = "idle"
  /\ cycle < MaxCycles
  /\ cycle' = cycle + 1
  /\ pc' = "read"
  /\ ti' = 1
  /\ pubs' = SelectSeq(pubs, LAMBDA p : p.phase = "config")
  /\ reads' = <<>>
  /\ data' = <<>>
  /\ parsed_data' = <<>>
  /\ pi' = 0
  /\ UNCHANGED <<gd, cfg, client, sensor_types, si, err, nfail, dec>>

\* get_table_part without the except C1218ReadTableError of
\* read_and_process_data: the read error leaves run.
get_table_part_unhandled ==
  /\ pc = "read"
  /\ \E ok \in BOOLEAN :
       /\ IF ok
          THEN /\ \E b \in SourceBuffers : data' = b
               /\ pc' = "parse"
               /\ err' = err
          ELSE /\ data' = <<>>
               /\ pc' = "crashed"
               /\ err' = "C1218ReadTableError"
       /\ reads' = Append(reads, [table_id |-> tables[ti][1], octet |-> tables[ti][2],
                                  offset |-> 0, ok |-> ok, reply |-> data'])
  /\ parsed_data' = <<>>
  /\ pi' = 0
  /\ UNCHANGED <<gd, cfg, client, sensor_types, si, cycle, ti, pubs, nfail, dec>>

\* get_table_part whose read error is logged and followed by the decode of
\* whatever data holds.
get_table_part_then_decode ==
  /\ pc = "read"
  /\ \E ok \in BOOLEAN :
       /\ IF ok
          THEN \E b \in SourceBuffers : data' = b
          ELSE data' = data
       /\ reads' = Append(reads, [table_id |-> tables[ti][1], octet |-> tables[ti][2],
                                  offset |-> 0, ok |-> ok,
                                  reply |-> IF ok THEN data' ELSE <<>>])
  /\ pc' = "parse"
  /\ parsed_data' = <<>>
  /\ pi' = 0
  /\ UNCHANGED <<gd, cfg, client, sensor_types, si, cycle, ti, pubs, err, nfail, dec>>

\* conn.get_table_part(table_id, octet, 0): C1218ReadTableError, which the
\* handler of read_and_process_data logs, or the bytes read.
get_table_part ==
  /\ pc = "read"
  /\ \E ok \in BOOLEAN :
       /\ IF ok
          THEN /\ \E b \in SourceBuffers : data' = b
               /\ pc' = "parse"
               /\ ti' = ti
          ELSE /\ data' = <<>>
               /\ Advance
       /\ reads' = Append(reads, [table_id |-> tables[ti][1], octet |-> tables[ti][2],
                                  offset |-> 0, ok |-> ok, reply |-> data'])
  /\ parsed_data' = <<>>
  /\ pi' = 0
  /\ UNCHANGED <<gd, cfg, client, sensor_types, si, cycle, pubs, err, nfail, dec>>

\* parsed_data = self.parse_input_buffer(data, table_id); if parsed_data: ...
parse ==
  /\ pc = "parse"
  /\ LET r == parse_input_buffer(data, tables[ti][1])
     IN  IF r.exc # "none"
         THEN pc' = "crashed" /\ err' = r.exc /\ UNCHANGED <<parsed_data, pi, ti>>
         ELSE /\ parsed_data' = r.data
              /\ err' = err
              /\ IF r.data # <<>>
                 THEN pc' = "publish" /\ pi' = 1 /\ ti' = ti
                 ELSE pi' = pi /\ Advance
  /\ UNCHANGED <<gd, cfg, client, sensor_types, si, cycle, data, pubs, reads, nfail, dec>>

\* publish_data returning after its first publish (a return inside the loop).
publish_data_first_only ==
  /\ pc = "publish"
  /\ LET key   == parsed_data[pi][1]
         value == parsed_data[pi][2]
     IN  \E o \in PublishOutcomes :
           /\ pubs' = Append(pubs, publish(data_topic(cfg, key), value, 0, FALSE, o, "data"))
           /\ nfail' = IF Failed(o) THEN nfail + 1 ELSE nfail
           /\ IF o = "raise"
              THEN pc' = "crashed" /\ err' = "PublishError" /\ UNCHANGED <<pi, ti>>
              ELSE /\ err' = err
                   /\ pi' = pi
                   /\ Advance
  /\ UNCHANGED <<gd, cfg, client, sensor_types, si, cycle, data, parsed_data, reads, dec>>

\* One iteration of publish_data's loop over buffer_dict.items().
publish_data ==
  /\ pc = "publish"
  /\ LET key   == parsed_data[pi][1]
         value == parsed_data[pi][2]
     IN  \E o \in PublishOutcomes :
           /\ pubs' = Append(pubs, publish(data_topic(cfg, key), value, 0, FALSE, o, "data"))
           /\ nfail' = IF Failed(o) THEN nfail + 1 ELSE nfail
           /\ IF o = "raise"
              THEN pc' = "crashed" /\ err' = "PublishError" /\ UNCHANGED <<pi, ti>>
              ELSE /\ err' = err
                   /\ IF pi < Len(parsed_data)
                      THEN pi' = pi + 1 /\ pc' = pc /\ ti' = ti
                      ELSE pi' = pi /\ Advance
  /\ UNCHANGED <<gd, cfg, client, sensor_types, si, cycle, data, parsed_data, reads, dec>>

\* ------------------------------------------- parse_input_buffer on its own
\* Table ids handed to parse_input_buffer: the two of run, and one it has no
\* branch for.
TableIds == {23, 28, 7}

\* Register contents the meter may encode: zeros and small counts, the
\* documented example of table 28, negative and extreme values.
WireInts ==
  { <<1000, 2000, 0, 0, 0, 0, 0, 0, 0, 0, 0, 0>>,
    <<100, -50, 0, 0, 5000, 6000, 7000, 120000, 121000, 122000, 7, 8>>,
    <<2147483647, -2147483647 - 1, -1, 1, -1000, 999, -999, 1001, -1001,
      123456789, -5, 256>> }

InitDecode ==
  /\ cfg \in Configs
  /\ pc = "decode"
  /\ client = NoClient
  /\ sensor_types = <<>>
  /\ si = 0
  /\ cycle = 0
  /\ ti = 0
  /\ data = <<>>
  /\ parsed_data = <<>>
  /\ pi = 0
  /\ pubs = <<>>
  /\ reads = <<>>
  /\ err = "none"
  /\ nfail = 0
  /\ gd = NoGetData
  /\ \E t \in TableIds, v \in WireInts, n \in 0..MaxBufLen :
       dec = [NoDec EXCEPT !.table_id = t, !.ints = v, !.byte = Take(Pack(v), n)]

\* self.parse_input_buffer(byte, table_id), called directly.
parse_input_buffer_call ==
  /\ pc = "decode"
  /\ ~dec.called
  /\ dec' = [dec EXCEPT !.called = TRUE,
                        !.result = parse_input_buffer(dec.byte, dec.table_id)]
  /\ UNCHANGED <<gd, cfg, pc, client, sensor_types, si, cycle, ti, data, parsed_data, pi,
                 pubs, reads, err, nfail>>

NextDecode == parse_input_buffer_call

SpecDecode == InitDecode /\ [][NextDecode]_vars

\* ------------------------------- publish_initial_configurations on its own
\* Keys handed to publish_initial_configurations: two of the catalog (one with
\* and one without a device class) and one the catalog does not hold.
KeyPool == {"Fwd_kWh", "L1_A", "no_such_key"}

KeySeqs == UNION {[1..n -> KeyPool] : n \in 0..MaxKeys}

InitPublishAll ==
  /\ cfg \in Configs
  /\ pc = "config"
  /\ \E connected \in BOOLEAN : client = setup_mqtt(connected)
  /\ sensor_types \in KeySeqs
  /\ si = 1
  /\ cycle = 0
  /\ ti = 0
  /\ data = <<>>
  /\ parsed_data = <<>>
  /\ pi = 0
  /\ pubs = <<>>
  /\ reads = <<>>
  /\ err = "none"
  /\ nfail = 0
  /\ gd = NoGetData
  /\ dec = NoDec

NextPublishAll ==
  \/ publish_initial_configurations
  \/ publish_initial_configurations_return

SpecPublishAll == InitPublishAll /\ [][NextPublishAll]_vars

\* ------------------------------------------------------------- the module
Next ==
  \/ Module_init
  \/ publish_initial_configurations
  \/ publish_initial_configurations_return
  \/ run
  \/ get_table_part
  \/ parse
  \/ publish_data

Spec == Init /\ [][Next]_vars

\* ------------------------------------------------------------ properties
\* The ten metric keys the specification defines.
TenKeys ==
  {"Fwd_kWh", "Rev_kWh", "fwd_Now", "rev_Now", "L1_A", "L2_A", "L3_A", "L1_V",
   "L2_V", "L3_V"}

\* The data publishes of the current cycle, in the order they were issued.
DataPubs == SelectSeq(pubs, LAMBDA p : p.phase = "data")

\* <prefix>/<meterName>/<key>, spelled out level by level.
IsTopicOfKey(t, key) ==
  LET n == Len(cfg.mqtt_topic_prefix)
  IN  /\ Len(t) = n + 2
      /\ \A i \in 1..n : t[i] = cfg.mqtt_topic_prefix[i]
      /\ t[n + 1] = <<cfg.meter_name>>
      /\ t[n + 2] = <<key>>

\* homeassistant/sensor/<meterName>_<key>/config for some key.
IsDiscoveryTopic(t) ==
  /\ Len(t) = 4
  /\ t[1] = <<"homeassistant">>
  /\ t[2] = <<"sensor">>
  /\ Len(t[3]) = 3 /\ t[3][1] = cfg.meter_name /\ t[3][2] = "_"
  /\ t[4] = <<"config">>

\* <prefix>/<meterName>/<key> for some key.
IsDataTopic(t) ==
  Len(t) >= 1 /\ Len(t[Len(t)]) = 1 /\ IsTopicOfKey(t, t[Len(t)][1])

\* The mapping decoded from the i-th read of the cycle: empty when the read
\* failed or has not happened.
MappingOfRead(i) ==
  IF i <= Len(reads) /\ reads[i].ok
  THEN parse_input_buffer(reads[i].reply, reads[i].table_id).data
  ELSE <<>>

\* pubs_ publishes exactly the pairs of mapping, one call each, in order, each
\* to <prefix>/<meterName>/<key> with the value as payload.
PublishesMapping(pubs_, mapping) ==
  /\ Len(pubs_) = Len(mapping)
  /\ \A i \in 1..Len(mapping) :
       /\ IsTopicOfKey(pubs_[i].topic, mapping[i][1])
       /\ pubs_[i].payload = mapping[i][2]

\* C1: in a poll cycle whose read of table 23 failed, the very next thing the
\* module does is read table 28 (the failure never leaves run), and once that
\* read has succeeded the cycle's publishes are the metrics decoded from the
\* reply of table 28, in order: all of them when run returns.
C1_ReadFailureDoesNotBlockTable28 ==
  (Len(reads) >= 1 /\ reads[1].table_id = 23 /\ ~reads[1].ok) =>
    /\ Len(reads) = 1 => (pc = "read" /\ ti = 2 /\ err = "none")
    /\ Len(reads) = 2 => reads[2].table_id = 28
    /\ pc = "idle" => Len(reads) = 2
    /\ pc = "crashed" => (Len(reads) = 2 /\ reads[2].ok)
    /\ (Len(reads) = 2 /\ reads[2].ok) =>
         LET m == MappingOfRead(2)
             n == Len(DataPubs)
         IN  /\ n <= Len(m)
             /\ PublishesMapping(DataPubs, SubSeq(m, 1, n))
             /\ pc = "idle" => (n = Len(m) /\ n = 8)

\* C1 witness: run has returned after a failed read of table 23 and a
\* successful read of table 28, whose eight metrics were published.
C1_Witness ==
  /\ pc = "idle" /\ Len(reads) = 2
  /\ reads[1].table_id = 23 /\ ~reads[1].ok
  /\ reads[2].table_id = 28 /\ reads[2].ok
  /\ Len(DataPubs) = 8
  /\ IsTopicOfKey(DataPubs[1].topic, "fwd_Now")

\* C2: for table 23 or 28 and any buffer, parse_input_buffer returns a mapping
\* (raises nothing) and evaluates no subscript of int32_values beyond 8.
C2_DecodeNeverFailsNorReadsPast8 ==
  (dec.called /\ dec.table_id \in {23, 28}) =>
    (dec.result.exc = "none" /\ \A k \in dec.result.reads : k <= 8)

\* C3: for a table id other than 23 and 28, parse_input_buffer returns the
\* empty mapping and raises nothing.
C3_UnknownTableDecodesEmpty ==
  (dec.called /\ dec.table_id \notin {23, 28}) =>
    (dec.result.exc = "none" /\ dec.result.data = <<>>)

\* C4: after a data publish that failed (error code or exception) the cycle
\* goes on: the failure never ends run.
C4_FailedPublishDoesNotBlock ==
  \A i \in 1..Len(pubs) :
    (pubs[i].phase = "data" /\ pubs[i].outcome # "ok") =>
      ~(pc = "crashed" /\ err = "PublishError")

\* C5: whatever bytes the read of table 23 returned, interpreting them never
\* ends the cycle: run is never left by an exception of the decoder while it
\* handles table 23.
C5_DecodeFailureNeverFatal ==
  (Len(reads) = 1 /\ reads[1].table_id = 23 /\ reads[1].ok) =>
    ~(pc = "crashed" /\ err \in {"struct.error", "IndexError", "UnboundLocalError"})

\* C6: every client.publish call uses QoS 0 and is retained exactly when its
\* topic is a discovery-configuration topic; a publish to a data topic is
\* never retained.
C6_QosZeroRetainOnlyDiscovery ==
  \A i \in 1..Len(pubs) :
    /\ pubs[i].qos = 0
    /\ pubs[i].retain <=> IsDiscoveryTopic(pubs[i].topic)
    /\ IsDataTopic(pubs[i].topic) => ~pubs[i].retain

\* C6 witness: a cycle has published a metric unretained after construction
\* published a discovery configuration retained.
C6_Witness ==
  /\ \E i \in 1..Len(pubs) : pubs[i].retain /\ IsDiscoveryTopic(pubs[i].topic)
  /\ \E i \in 1..Len(pubs) : ~pubs[i].retain /\ IsDataTopic(pubs[i].topic)

\* The keys of s that are among the ten defined keys, in order.
Resolvable(s) == SelectSeq(s, LAMBDA k : k \in TenKeys)

\* C7: publish_initial_configurations passes over every key of its input: a
\* key without catalog entry publishes nothing and never ends the pass, and
\* the discovery publishes are, in order, those of the keys with an entry
\* among the keys passed so far: of all the keys when the pass returns.
C7_PublishAllRunsToCompletion ==
  LET passed == IF pc = "idle" THEN Len(sensor_types) ELSE si - 1
      kept   == Resolvable(SubSeq(sensor_types, 1, passed))
      issued == IF pc = "crashed" THEN SubSeq(pubs, 1, Len(pubs) - 1) ELSE pubs
  IN  /\ pc = "idle" => si = Len(sensor_types) + 1
      /\ pc = "crashed" =>
           (sensor_types[si] \in TenKeys /\ pubs[Len(pubs)].outcome = "raise")
      /\ Len(issued) = Len(kept)
      /\ \A i \in 1..Len(kept) :
           issued[i].topic = << <<"homeassistant">>, <<"sensor">>,
                                <<cfg.meter_name, "_", kept[i]>>, <<"config">> >>

\* C7 witness: the pass has returned over a sequence in which a key without
\* entry precedes a key with one, whose configuration was published.
C7_Witness ==
  /\ pc = "idle"
  /\ \E i, j \in 1..Len(sensor_types) :
       /\ i < j
       /\ sensor_types[i] \notin TenKeys
       /\ sensor_types[j] \in TenKeys
  /\ Len(pubs) >= 1

\* C8: publish_data runs only on a non-empty mapping, and the data publishes
\* of a cycle are exactly the pairs of the decoded mappings, one call per
\* pair, each to <prefix>/<meterName>/<key>: a table whose mapping is empty
\* (or was never decoded) contributes none.
C8_OnePublishPerPair ==
  /\ pc = "publish" =>
       /\ parsed_data # <<>>
       /\ parsed_data = MappingOfRead(ti)
       /\ PublishesMapping(DataPubs,
            (IF ti = 2 THEN MappingOfRead(1) ELSE <<>>) \o SubSeq(parsed_data, 1, pi - 1))
  /\ (pc = "read" /\ ti = 2) => PublishesMapping(DataPubs, MappingOfRead(1))
  /\ (pc = "idle" /\ cycle >= 1) =>
       PublishesMapping(DataPubs, MappingOfRead(1) \o MappingOfRead(2))
  /\ (pc = "parse") =>
       PublishesMapping(DataPubs, IF ti = 2 THEN MappingOfRead(1) ELSE <<>>)

\* C8 witness: run has returned after publishing the two metrics of table 23
\* and the eight of table 28, ten calls in all.
C8_Witness ==
  /\ pc = "idle" /\ Len(reads) = 2 /\ reads[1].ok /\ reads[2].ok
  /\ Len(DataPubs) = 10
  /\ IsTopicOfKey(DataPubs[2].topic, "Rev_kWh")

\* x is the float v / 1000: its floor and its thousandths.
IsThousandth(x, v) ==
  x.type = "float" /\ x.whole = v \div 1000 /\ x.milli = v % 1000

\* C9: for table 28 and a 40-byte buffer encoding the integers v[0..9],
\* parse_input_buffer returns exactly the eight keys fwd_Now = v[0],
\* rev_Now = v[1], L1_A..L3_A = v[4..6] / 1000, L1_V..L3_V = v[7..9] / 1000,
\* signed, ignoring v[2] and v[3].
C9_Table28Layout ==
  (dec.called /\ dec.table_id = 28 /\ Len(dec.byte) = 40) =>
    LET v == dec.ints
        m == dec.result.data
    IN  /\ dec.result.exc = "none"
        /\ Len(m) = 8
        /\ m[1][1] = "fwd_Now" /\ m[1][2] = [type |-> "int", whole |-> v[1], milli |-> 0]
        /\ m[2][1] = "rev_Now" /\ m[2][2] = [type |-> "int", whole |-> v[2], milli |-> 0]
        /\ m[3][1] = "L1_A" /\ IsThousandth(m[3][2], v[5])
        /\ m[4][1] = "L2_A" /\ IsThousandth(m[4][2], v[6])
        /\ m[5][1] = "L3_A" /\ IsThousandth(m[5][2], v[7])
        /\ m[6][1] = "L1_V" /\ IsThousandth(m[6][2], v[8])
        /\ m[7][1] = "L2_V" /\ IsThousandth(m[7][2], v[9])
        /\ m[8][1] = "L3_V" /\ IsThousandth(m[8][2], v[10])

\* C9 witness: the documented example has been decoded: rev_Now is -50,
\* L1_A is 5.0 and L3_V is 122.0.
C9_Witness ==
  /\ dec.called /\ dec.table_id = 28 /\ Len(dec.byte) = 40
  /\ SubSeq(dec.ints, 1, 10) = <<100, -50, 0, 0, 5000, 6000, 7000, 120000, 121000, 122000>>
  /\ dec.result.exc = "none"
  /\ dec.result.data[2][2].whole = -50
  /\ dec.result.data[3][2] = [type |-> "float", whole |-> 5, milli |-> 0]
  /\ dec.result.data[8][2] = [type |-> "float", whole |-> 122, milli |-> 0]

\* The j-th (1-based) integer of the zero-padded buffer that holds the first
\* n bytes of the encoding of ints: ints[j] when its four bytes are there,
\* its low bytes when it was cut, 0 when it lies in the padding.
PaddedInt(ints, n, j) ==
  LET k == n - 4 * (j - 1)
  IN  IF k >= 4 THEN ints[j]
      ELSE IF k <= 0 THEN 0
      ELSE ints[j] % (256 ^ k)

\* C10: for table 23 and any buffer, parse_input_buffer returns exactly the
\* keys Fwd_kWh = v[0] / 1000 and Rev_kWh = v[1] / 1000, v being the signed
\* little-endian integers of the buffer right-padded with zero bytes.
C10_Table23Layout ==
  (dec.called /\ dec.table_id = 23) =>
    LET m == dec.result.data
    IN  /\ dec.result.exc = "none"
        /\ Len(m) = 2
        /\ m[1][1] = "Fwd_kWh"
        /\ IsThousandth(m[1][2], PaddedInt(dec.ints, Len(dec.byte), 1))
        /\ m[2][1] = "Rev_kWh"
        /\ IsThousandth(m[2][2], PaddedInt(dec.ints, Len(dec.byte), 2))

\* On the buffers struct.unpack accepts (a length below 36, or a multiple of
\* 4) the layout of table 23 is as stated, the 8-byte buffer of the poll
\* cycle included.
Table23LayoutOnWholeBuffers ==
  (Len(dec.byte) < 36 \/ Len(dec.byte) % 4 = 0) => C10_Table23Layout

\* The keys a dict literal of the decoder emits.
LayoutKeys(layout) == {layout[i][1] : i \in 1..Len(layout)}

\* The metric key a data topic ends in.
KeyOfTopic(t) == t[Len(t)][1]

\* C11: the keys parse_input_buffer can emit for tables 23 and 28 are exactly
\* the ten defined keys, each has an entry in config_details and is in
\* self.sensor_types, and every publish on a data topic comes after the
\* discovery configuration of its key was generated and published.
C11_DecoderCatalogClosure ==
  /\ LayoutKeys(layout23) \cup LayoutKeys(layout28) = TenKeys
  /\ Cardinality(TenKeys) = 10
  /\ TenKeys = DOMAIN config_details
  /\ pc \notin {"init", "decode"} =>
       TenKeys = {sensor_types[i] : i \in 1..Len(sensor_types)}
  /\ \A i \in 1..Len(pubs) :
       pubs[i].phase = "data" =>
         /\ KeyOfTopic(pubs[i].topic) \in TenKeys
         /\ \E j \in 1..(i - 1) :
              /\ pubs[j].topic = << <<"homeassistant">>, <<"sensor">>,
                                    <<cfg.meter_name, "_", KeyOfTopic(pubs[i].topic)>>,
                                    <<"config">> >>
              /\ ~pubs[j].payload.none

\* C11 witness: the last key of table 28, L3_V, was published on its data
\* topic after its discovery configuration.
C11_Witness ==
  \E i \in 1..Len(pubs) :
    /\ pubs[i].phase = "data"
    /\ KeyOfTopic(pubs[i].topic) = "L3_V"
    /\ \E j \in 1..(i - 1) : pubs[j].topic[3] = <<cfg.meter_name, "_", "L3_V">>

\* ------------------------------------------ a second discovery pass (C12)
\* publish_initial_configurations is called a second time on the same
\* instance, after any number of poll cycles.
republish ==
  /\ pc = "idle"
  /\ pc' = "reconfig"
  /\ si' = 1
  /\ UNCHANGED <<gd, cfg, client, sensor_types, cycle, ti, data, parsed_data, pi,
                 pubs, reads, err, nfail, dec>>

\* The second pass putting the number of polls so far into the payload once
\* the instance has polled.
publish_initial_configurations_again_stamped ==
  /\ pc = "reconfig"
  /\ si <= Len(sensor_types)
  /\ LET sensor_type    == sensor_types[si]
         payload        == get_or_create_config(cfg, sensor_type)
         config_payload == IF cycle = 0
                           THEN payload
                           ELSE [payload EXCEPT !.json = Append(@, <<"polls", cycle>>)]
     IN  IF ~config_payload.none
         THEN \E o \in PublishOutcomes :
                /\ pubs' = Append(pubs, publish(config_topic(cfg, sensor_type),
                                                config_payload, DefaultQos, TRUE, o, "reconfig"))
                /\ nfail' = IF Failed(o) THEN nfail + 1 ELSE nfail
                /\ IF o = "raise"
                   THEN pc' = "crashed" /\ err' = "PublishError" /\ si' = si
                   ELSE pc' = pc /\ err' = err /\ si' = si + 1
         ELSE /\ si' = si + 1
              /\ UNCHANGED <<pubs, nfail, pc, err>>
  /\ UNCHANGED <<gd, cfg, client, sensor_types, cycle, ti, data, parsed_data, pi, reads, dec>>

\* One iteration of the second pass's loop: the same code as the first pass,
\* its publishes recorded under the phase "reconfig".
publish_initial_configurations_again ==
  /\ pc = "reconfig"
  /\ si <= Len(sensor_types)
  /\ LET sensor_type    == sensor_types[si]
         config_payload == get_or_create_config(cfg, sensor_type)
     IN  IF ~config_payload.none
         THEN \E o \in PublishOutcomes :
                /\ pubs' = Append(pubs, publish(config_topic(cfg, sensor_type),
                                                config_payload, DefaultQos, TRUE, o, "reconfig"))
                /\ nfail' = IF Failed(o) THEN nfail + 1 ELSE nfail
                /\ IF o = "raise"
                   THEN pc' = "crashed" /\ err' = "PublishError" /\ si' = si
                   ELSE pc' = pc /\ err' = err /\ si' = si + 1
         ELSE /\ si' = si + 1
              /\ UNCHANGED <<pubs, nfail, pc, err>>
  /\ UNCHANGED <<gd, cfg, client, sensor_types, cycle, ti, data, parsed_data, pi, reads, dec>>

\* The second pass returns.
publish_initial_configurations_again_return ==
  /\ pc = "reconfig"
  /\ si > Len(sensor_types)
  /\ pc' = "republished"
  /\ UNCHANGED <<gd, cfg, client, sensor_types, si, cycle, ti, data, parsed_data, pi,
                 pubs, reads, err, nfail, dec>>

NextRepublish ==
  \/ Next
  \/ republish
  \/ publish_initial_configurations_again
  \/ publish_initial_configurations_again_return

SpecRepublish == Init /\ [][NextRepublish]_vars

FirstPass  == SelectSeq(pubs, LAMBDA p : p.phase = "config")
SecondPass == SelectSeq(pubs, LAMBDA p : p.phase = "reconfig")

DisconnectOutcomes == {"ok", "loop_stop_raises", "disconnect_raises"}

\* disconnect: loop_stop, then client.disconnect, both inside one try whose
\* handler logs; an exception of loop_stop skips client.disconnect.
disconnect(c, outcome) ==
  CASE outcome = "ok"                -> [c EXCEPT !.loop = FALSE, !.connected = FALSE]
    [] outcome = "loop_stop_raises"  -> c
    [] outcome = "disconnect_raises" -> [c EXCEPT !.loop = FALSE]

\* __del__: the instance is finalized (its last reference went away after
\* construction raised, or while the module is idle or after run raised).
Module_del ==
  /\ pc \in {"idle", "crashed"}
  /\ \E o \in DisconnectOutcomes : client' = disconnect(client, o)
  /\ pc' = "deleted"
  /\ UNCHANGED <<gd, cfg, sensor_types, si, cycle, ti, data, parsed_data, pi,
                 pubs, reads, err, nfail, dec>>

\* The process ends while the framework still holds the instance: nothing in
\* the module calls disconnect, and the interpreter need not call __del__ for
\* objects that still exist when it exits.
interpreter_exit ==
  /\ pc \in {"idle", "crashed"}
  /\ pc' = "exited"
  /\ UNCHANGED <<gd, cfg, client, sensor_types, si, cycle, ti, data, parsed_data, pi,
                 pubs, reads, err, nfail, dec>>

NextLifecycle ==
  \/ Next
  \/ Module_del
  \/ interpreter_exit

SpecLifecycle == Init /\ [][NextLifecycle]_vars

\* C13: the broker connection is released on every exit path: once the module
\* that started the broker client has shut down, the background loop is
\* stopped and the client is disconnected, whether setup failed at connect
\* or construction or a poll cycle ended with an error.
C13_ConnectionReleasedOnShutdown ==
  pc \in {"deleted", "exited"} => ~client.loop /\ ~client.connected

\* C14: every call of run reads (23, 8, 0) once, then (28, 40, 0) once, never
\* re-reads a table, and returns to its caller whatever the reads produced:
\* once a cycle is over, its reads are exactly these two and run has returned.
C14_EachTableReadOnceThenIdle ==
  /\ Len(reads) <= 2
  /\ \A i \in 1..Len(reads) :
       /\ reads[i].table_id = tables[i][1]
       /\ reads[i].octet = tables[i][2]
       /\ reads[i].offset = 0
  /\ cycle >= 1 /\ pc \in {"idle", "crashed"} =>
       /\ pc = "idle"
       /\ Len(reads) = 2

\* C15: when connect raised in setup_mqtt, the failure stays inside
\* setup_mqtt: construction goes on to the discovery pass, which attempts a
\* publish for each of the ten keys, and each later call of run reads both
\* tables and publishes what it decoded; whatever ends construction or a poll
\* cycle early is not the connect failure.
C15_ConnectFailureRecovered ==
  (client.exists /\ ~client.connected) =>
    /\ ~client.loop
    /\ err # "ConnectError"
    /\ (pc = "config" /\ si <= Len(sensor_types)) => Len(pubs) = si - 1
    /\ (pc = "idle" \/ cycle >= 1) =>
         /\ Len(FirstPass) = Len(SensorTypes)
         /\ \A i \in 1..Len(SensorTypes) :
              FirstPass[i].topic = config_topic(cfg, SensorTypes[i])
    /\ (pc = "idle" /\ cycle >= 1) =>
         /\ Len(reads) = 2
         /\ reads[1].table_id = 23 /\ reads[2].table_id = 28
         /\ PublishesMapping(DataPubs, MappingOfRead(1) \o MappingOfRead(2))

\* C15 witness: connect failed at startup, the ten discovery publishes were
\* attempted, and a poll cycle has read both tables and published ten metrics.
C15_Witness ==
  /\ client.exists /\ ~client.connected
  /\ pc = "idle" /\ cycle >= 1
  /\ Len(FirstPass) = 10
  /\ Len(reads) = 2 /\ reads[1].ok /\ reads[2].ok
  /\ Len(DataPubs) = 10

\* The keys parse_input_buffer produces for a table.
KeysOfTable(table_id) ==
  IF table_id = 23 THEN LayoutKeys(layout23)
  ELSE IF table_id = 28 THEN LayoutKeys(layout28)
  ELSE {}

\* C16: a read that fails with C1218ReadTableError is followed by neither a
\* decode nor a publish for its table: right after it the module is at the
\* next table's read, or run has returned, with nothing decoded and no
\* exception; decoding and publishing happen only for a read that succeeded;
\* and the cycle holds no data publish carrying a key of a table whose read
\* failed.
C16_FailedReadSkipsDecodeAndPublish ==
  /\ \A i \in 1..Len(reads) :
       ~reads[i].ok =>
         \A j \in 1..Len(DataPubs) :
           KeyOfTopic(DataPubs[j].topic) \notin KeysOfTable(reads[i].table_id)
  /\ (Len(reads) >= 1 /\ ~reads[Len(reads)].ok) =>
       /\ pc \in {"read", "idle"}
       /\ pc = "read" => ti = Len(reads) + 1
       /\ pc = "idle" => Len(reads) = Len(tables)
       /\ parsed_data = <<>>
       /\ err = "none"
  /\ pc \in {"parse", "publish"} => (Len(reads) = ti /\ reads[ti].ok)
  /\ err # "C1218ReadTableError"

\* C16 witness: the read of table 28 failed after table 23 was read, decoded
\* and published; run has returned with the two publishes of table 23 only.
C16_Witness ==
  /\ pc = "idle" /\ cycle >= 1
  /\ Len(reads) = 2 /\ reads[1].ok /\ ~reads[2].ok
  /\ Len(DataPubs) = 2

\* C17: discovery precedes data. Construction publishes the discovery
\* configuration of the keys of sensor_types in order, one publish per key,
\* and nothing else; a poll cycle starts only after all ten were published,
\* so every data publish comes after them; and no publish of a poll cycle goes
\* to a discovery topic.
C17_DiscoveryPrecedesData ==
  /\ Len(FirstPass) <= Len(SensorTypes)
  /\ \A i \in 1..Len(FirstPass) :
       /\ pubs[i].phase = "config"
       /\ pubs[i].topic = config_topic(cfg, SensorTypes[i])
       /\ IsDiscoveryTopic(pubs[i].topic)
  /\ cycle = 0 => Len(pubs) = Len(FirstPass)
  /\ (cycle >= 1 \/ pc = "idle") => Len(FirstPass) = Len(SensorTypes)
  /\ \A i \in (Len(FirstPass) + 1)..Len(pubs) :
       /\ pubs[i].phase = "data"
       /\ cycle >= 1
       /\ IsDataTopic(pubs[i].topic)
       /\ ~IsDiscoveryTopic(pubs[i].topic)

\* C17 witness: a poll cycle has published all ten metrics, after the ten
\* discovery publishes of construction.
C17_Witness ==
  /\ cycle >= 1
  /\ Len(pubs) = 20
  /\ pubs[10].phase = "config" /\ pubs[10].topic = config_topic(cfg, "L3_V")
  /\ pubs[11].phase = "data" /\ pubs[20].phase = "data"

\* C18: tables are handled one after the other. Decoding and publishing are
\* always for the read issued last, a read is issued only when the one before
\* it has been handled, table 23 is read first, and by the time table 28 is
\* read every pair decoded from table 23 has been published: all later data
\* publishes of the cycle carry keys of table 28.
C18_TablesStrictlySequential ==
  /\ pc = "read" => Len(reads) = ti - 1
  /\ pc \in {"parse", "publish"} => Len(reads) = ti
  /\ Len(reads) >= 1 =>
       /\ reads[1].table_id = 23
       /\ \A j \in 1..Len(DataPubs) :
            j <= Len(MappingOfRead(1)) =>
              KeyOfTopic(DataPubs[j].topic) \in KeysOfTable(23)
  /\ Len(reads) = 1 => Len(DataPubs) <= Len(MappingOfRead(1))
  /\ Len(reads) = 2 =>
       /\ reads[2].table_id = 28
       /\ Len(DataPubs) >= Len(MappingOfRead(1))
       /\ PublishesMapping(SubSeq(DataPubs, 1, Len(MappingOfRead(1))), MappingOfRead(1))
       /\ \A j \in (Len(MappingOfRead(1)) + 1)..Len(DataPubs) :
            KeyOfTopic(DataPubs[j].topic) \in KeysOfTable(28)

\* C18 witness: table 28 is being published after table 23 was read, decoded
\* and published in full.
C18_Witness ==
  /\ pc = "publish" /\ ti = 2 /\ pi = 3
  /\ Len(reads) = 2 /\ reads[1].ok
  /\ Len(DataPubs) = 4
  /\ KeyOfTopic(DataPubs[2].topic) = "Rev_kWh"
  /\ KeyOfTopic(DataPubs[3].topic) = "fwd_Now"

\* Lookup in a serialized dict (a sequence of <<name, value>> pairs).
HasField(json, name) == \E i \in 1..Len(json) : json[i][1] = name
Field(json, name) == json[CHOOSE i \in 1..Len(json) : json[i][1] = name][2]

\* The keys whose catalog entry has no device class.
AmperageKeys == {"L1_A", "L2_A", "L3_A"}

\* C19: for every discovery publish, of key k: the state_topic in its payload
\* is <prefix>/<meterName>/<k>, the topic every data publish of k goes to; its
\* unique_id is <meterId>_<k>; and it carries device_class exactly when the
\* catalog entry of k has one, which is the case for all keys but L1_A, L2_A
\* and L3_A.
C19_DiscoveryAndDataTopicsAgree ==
  /\ \A i \in 1..Len(FirstPass) :
       LET k == SensorTypes[i]
           p == FirstPass[i].payload.json
       IN  /\ ~FirstPass[i].payload.none
           /\ HasField(p, "state_topic")
           /\ IsTopicOfKey(Field(p, "state_topic"), k)
           /\ \A j \in 1..Len(DataPubs) :
                KeyOfTopic(DataPubs[j].topic) = k =>
                  DataPubs[j].topic = Field(p, "state_topic")
           /\ HasField(p, "unique_id")
           /\ Field(p, "unique_id") = <<cfg.meter_id, "_", k>>
           /\ HasField(p, "device_class") <=> config_details[k][5] # "None"
           /\ HasField(p, "device_class") <=> k \notin AmperageKeys
           /\ HasField(p, "device_class") =>
                Field(p, "device_class") = config_details[k][5]
  /\ \A j \in 1..Len(DataPubs) :
       \E i \in 1..Len(FirstPass) :
         DataPubs[j].topic = Field(FirstPass[i].payload.json, "state_topic")

\* C19 witness: L1_A was announced without device_class and L1_V with one, and
\* a data publish of L1_A went to the announced state_topic.
C19_Witness ==
  /\ Len(FirstPass) = 10
  /\ ~HasField(FirstPass[5].payload.json, "device_class")
  /\ Field(FirstPass[6].payload.json, "device_class") = "voltage"
  /\ \E j \in 1..Len(DataPubs) :
       /\ KeyOfTopic(DataPubs[j].topic) = "L1_A"
       /\ DataPubs[j].topic = Field(FirstPass[5].payload.json, "state_topic")

\* ------------------------------------------- get_data.Module.run (C20)
\* The two parts of get_data's run: <<tableid, octet, file written>>.
get_data_tables == << <<23, 8, "/var/tmp/BT23">>, <<28, 40, "/var/tmp/BT28">> >>

HexDigits ==
  <<"0", "1", "2", "3", "4", "5", "6", "7", "8", "9", "a", "b", "c", "d", "e", "f">>

\* binascii.b2a_hex(data).decode('utf-8'): two lower-case hex digits per byte.
b2a_hex(b) ==
  [i \in 1..(2 * Len(b)) |->
     LET byte == b[(i + 1) \div 2]
     IN  IF i % 2 = 1 THEN HexDigits[(byte \div 16) + 1] ELSE HexDigits[(byte % 16) + 1]]

InitGetData ==
  /\ cfg \in Configs
  /\ pc = "get_data"
  /\ client = NoClient
  /\ sensor_types = <<>>
  /\ si = 0
  /\ cycle = 0
  /\ ti = 0
  /\ data = <<>>
  /\ parsed_data = <<>>
  /\ pi = 0
  /\ pubs = <<>>
  /\ reads = <<>>
  /\ err = "none"
  /\ nfail = 0
  /\ dec = NoDec
  /\ gd = [NoGetData EXCEPT !.pc = "idle"]

\* run is called: data is not bound yet.
get_data_run ==
  /\ gd.pc = "idle"
  /\ gd.runs < MaxRuns
  /\ gd' = [gd EXCEPT !.pc = "read", !.runs = @ + 1, !.ti = 1, !.bound = FALSE,
                      !.data = <<>>, !.reads = <<>>, !.writes = <<>>]
  /\ UNCHANGED <<cfg, pc, client, sensor_types, si, cycle, ti, data, parsed_data, pi,
                 pubs, reads, err, nfail, dec>>

\* try: data = conn.get_table_part(tableid, octet, offset); the handler of
\* C1218ReadTableError logs and leaves data as it was.
get_data_get_table_part ==
  /\ gd.pc = "read"
  /\ \E ok \in BOOLEAN, b \in SourceBuffers :
       gd' = [gd EXCEPT !.pc = "write",
                        !.bound = IF ok THEN TRUE ELSE @,
                        !.data = IF ok THEN b ELSE @,
                        !.reads = Append(@, [table_id |-> get_data_tables[gd.ti][1],
                                             octet |-> get_data_tables[gd.ti][2],
                                             offset |-> 0, ok |-> ok,
                                             reply |-> IF ok THEN b ELSE <<>>])]
  /\ UNCHANGED <<cfg, pc, client, sensor_types, si, cycle, ti, data, parsed_data, pi,
                 pubs, reads, err, nfail, dec>>

\* len(data), the hexdump, and the write of b2a_hex(data) to the table's file;
\* len(data) raises UnboundLocalError when data was never assigned.
get_data_write ==
  /\ gd.pc = "write"
  /\ IF ~gd.bound
     THEN gd' = [gd EXCEPT !.pc = "crashed", !.err = "UnboundLocalError"]
     ELSE gd' = [gd EXCEPT !.files[get_data_tables[gd.ti][3]] = b2a_hex(gd.data),
                           !.writes = Append(@, [ti |-> gd.ti,
                                                 file |-> get_data_tables[gd.ti][3],
                                                 content |-> b2a_hex(gd.data)]),
                           !.pc = IF gd.ti < Len(get_data_tables) THEN "read" ELSE "idle",
                           !.ti = IF gd.ti < Len(get_data_tables) THEN @ + 1 ELSE 0]
  /\ UNCHANGED <<cfg, pc, client, sensor_types, si, cycle, ti, data, parsed_data, pi,
                 pubs, reads, err, nfail, dec>>

NextGetData ==
  \/ get_data_run
  \/ get_data_get_table_part
  \/ get_data_write

SpecGetData == InitGetData /\ [][NextGetData]_vars

\* C20: in get_data's run, what is written to a table's file is the hex of the
\* bytes this run's successful read of that table returned (so nothing is
\* written for a table whose read failed, and BT28 never receives the bytes of
\* table 23), and a failed read does not make run raise.
C20_FileHoldsBytesOfOwnRead ==
  /\ \A w \in 1..Len(gd.writes) :
       LET r == gd.reads[gd.writes[w].ti]
       IN  /\ r.ok
           /\ r.table_id = get_data_tables[gd.writes[w].ti][1]
           /\ gd.writes[w].content = b2a_hex(r.reply)
  /\ gd.err = "none"

\* The two halves of C20 on their own. First: a failed read of table 23 does
\* not make run raise.
GetDataFailedRead23IsHandled ==
  (Len(gd.reads) >= 1 /\ ~gd.reads[1].ok) => gd.pc # "crashed"

\* Second: after a failed read of table 28, what is written to BT28 is not the
\* reply of table 23.
GetDataBT28NotFromTable23 ==
  \A w \in 1..Len(gd.writes) :
    (gd.writes[w].ti = 2 /\ ~gd.reads[2].ok) =>
      gd.writes[w].content # b2a_hex(gd.reads[1].reply)

====
